---- MODULE Spec2Model ----
(***************************************************************************)
(* A model of autogen_project.py: the Coder / Reviewer / Executor agents   *)
(* and the Orchestrator's bounded retry loop (run_task).                   *)
(*                                                                         *)
(* Texts (task, candidate code, completions, messages) are sequences of    *)
(* one-character strings, so that the substring tests, strip(),            *)
(* replace() and upper() of the source are computed, not assumed.  The     *)
(* backquote character, which a TLA+ string cannot hold, is written BQ.    *)
(* Python's None is the one-element sequence <<"None">>: it differs from   *)
(* every text, because a text holds one-character strings only.            *)
(*                                                                         *)
(* Agent.say (lines 24-43) only prints and sleeps; it changes no state of  *)
(* the agents and is not part of this model's state.                       *)
(***************************************************************************)
EXTENDS Naturals, Sequences, FiniteSets

(***************************************************************************)
(* Bounds of the model.                                                    *)
(***************************************************************************)
\* how many times run_task is invoked on the same agent objects
MaxRuns == 2
\* max_tries of an invocation is drawn from 0..MaxTriesBound
MaxTriesBound == 3
\* update_readme_with_output is called at most MaxUpdates times on one README.md
MaxUpdates == 3

\* max_tries of the invocation with a broken display is at most this
MaxShownTries == 2

(***************************************************************************)
(* Python values and string operations.                                    *)
(***************************************************************************)
None == <<"None">>

\* the backquote character
BQ == "backquote"

\* bool(x) of an optional text: None and "" are false
Truthy(x) == x # None /\ x # <<>>

IsPrefixAt(s, sub, i) ==
    /\ i + Len(sub) - 1 <= Len(s)
    /\ SubSeq(s, i, i + Len(sub) - 1) = sub

\* sub in s
Contains(s, sub) == \E i \in 1..(Len(s) - Len(sub) + 1) : IsPrefixAt(s, sub, i)

\* s.replace(old, new): left to right, non-overlapping (old is not empty)
RECURSIVE ReplaceFrom(_, _, _, _)
ReplaceFrom(s, old, new, i) ==
    IF i > Len(s) THEN <<>>
    ELSE IF IsPrefixAt(s, old, i)
         THEN new \o ReplaceFrom(s, old, new, i + Len(old))
         ELSE <<s[i]>> \o ReplaceFrom(s, old, new, i + 1)

Replace(s, old, new) == ReplaceFrom(s, old, new, 1)

\* the characters str.strip() removes: those for which str.isspace() holds.
\* First \t \n \r \f and the space, then \x0b, \x1c to \x1f, \x85, \xa0 and
\* \u1680 as themselves, then the Unicode spaces \u2000 to \u200a, \u2028,
\* \u2029, \u202f, \u205f and \u3000, named by their code points
Whitespace ==
    {"\t", "\n", "\r", "\f", " ",
     "", "", "", "", "", "", " ", " ",
     "u2000", "u2001", "u2002", "u2003", "u2004", "u2005",
     "u2006", "u2007", "u2008", "u2009", "u200a",
     "u2028", "u2029", "u202f", "u205f", "u3000"}

\* s.lstrip() and s.rstrip()
RECURSIVE LStrip(_)
LStrip(s) ==
    IF s # <<>> /\ Head(s) \in Whitespace THEN LStrip(Tail(s)) ELSE s

RECURSIVE RStrip(_)
RStrip(s) ==
    IF s # <<>> /\ s[Len(s)] \in Whitespace
    THEN RStrip(SubSeq(s, 1, Len(s) - 1)) ELSE s

\* s.strip()
Strip(s) == RStrip(LStrip(s))

\* the capital of each small letter
UpperLetters ==
    [a |-> "A", b |-> "B", c |-> "C", d |-> "D", e |-> "E", f |-> "F", g |-> "G",
     h |-> "H", i |-> "I", j |-> "J", k |-> "K", l |-> "L", m |-> "M", n |-> "N",
     o |-> "O", p |-> "P", q |-> "Q", r |-> "R", s |-> "S", t |-> "T", u |-> "U",
     v |-> "V", w |-> "W", x |-> "X", y |-> "Y", z |-> "Z"]

UpperChar(c) == IF c \in DOMAIN UpperLetters THEN UpperLetters[c] ELSE c

\* s.upper()
RECURSIVE Upper(_)
Upper(s) == IF s = <<>> THEN <<>> ELSE <<UpperChar(Head(s))>> \o Upper(Tail(s))

Digits == <<"0", "1", "2", "3", "4", "5", "6", "7", "8", "9">>

\* str(n) of a natural number
RECURSIVE IntStr(_)
IntStr(n) ==
    IF n < 10 THEN <<Digits[n + 1]>>
    ELSE IntStr(n \div 10) \o <<Digits[(n % 10) + 1]>>

\* f"{x}" of an optional text
Format(x) == IF x = None THEN <<"N", "o", "n", "e">> ELSE x

\* the lines of a source text as Python's parser reads them: a line ends at
\* "\r\n", at "\r" or at "\n"
RECURSIVE SplitLines(_)
SplitLines(s) ==
    LET ends == {i \in 1..Len(s) : s[i] \in {"\n", "\r"}}
        first == CHOOSE i \in ends : \A j \in ends : i <= j
        next == IF s[first] = "\r" /\ first < Len(s) /\ s[first + 1] = "\n"
                THEN first + 2 ELSE first + 1
    IN  IF ends = {} THEN <<s>>
        ELSE <<SubSeq(s, 1, first - 1)>> \o SplitLines(SubSeq(s, next, Len(s)))

\* sep.join(parts)
RECURSIVE Join(_, _)
Join(parts, sep) ==
    IF parts = <<>> THEN <<>>
    ELSE IF Len(parts) = 1 THEN parts[1]
         ELSE parts[1] \o sep \o Join(Tail(parts), sep)

(***************************************************************************)
(* The string literals of the source.                                      *)
(***************************************************************************)
\* '<backquote><backquote><backquote>python'
FENCE_PYTHON ==
    <<BQ, BQ, BQ, "p", "y", "t", "h", "o", "n">>

\* '<backquote><backquote><backquote>'
FENCE ==
    <<BQ, BQ, BQ>>

\* '# Error: '
ERROR_PREFIX ==
    <<"#", " ", "E", "r", "r", "o", "r", ":", " ">>

\* 'The code you wrote before had this problem: '
FIX_HEAD ==
    <<"T", "h", "e", " ", "c", "o", "d", "e", " ", "y", "o", "u", " ", "w",
      "r", "o", "t", "e", " ", "b", "e", "f", "o", "r", "e", " ", "h", "a",
      "d", " ", "t", "h", "i", "s", " ", "p", "r", "o", "b", "l", "e", "m",
      ":", " ">>

\* '\n\nOriginal task: '
FIX_MID ==
    <<"\n", "\n", "O", "r", "i", "g", "i", "n", "a", "l", " ", "t", "a", "s",
      "k", ":", " ">>

\* '\n\nPlease write working Python code that fixes this issue. Just give me the code, no explanations.'
FIX_TAIL ==
    <<"\n", "\n", "P", "l", "e", "a", "s", "e", " ", "w", "r", "i", "t", "e",
      " ", "w", "o", "r", "k", "i", "n", "g", " ", "P", "y", "t", "h", "o",
      "n", " ", "c", "o", "d", "e", " ", "t", "h", "a", "t", " ", "f", "i",
      "x", "e", "s", " ", "t", "h", "i", "s", " ", "i", "s", "s", "u", "e",
      ".", " ", "J", "u", "s", "t", " ", "g", "i", "v", "e", " ", "m", "e",
      " ", "t", "h", "e", " ", "c", "o", "d", "e", ",", " ", "n", "o", " ",
      "e", "x", "p", "l", "a", "n", "a", "t", "i", "o", "n", "s", ".">>

\* '\n\nWrite Python code but make it incomplete (like leaving a TODO comment).\nThis helps demonstrate how the system fixes itself.'
INCOMPLETE_TAIL ==
    <<"\n", "\n", "W", "r", "i", "t", "e", " ", "P", "y", "t", "h", "o", "n",
      " ", "c", "o", "d", "e", " ", "b", "u", "t", " ", "m", "a", "k", "e",
      " ", "i", "t", " ", "i", "n", "c", "o", "m", "p", "l", "e", "t", "e",
      " ", "(", "l", "i", "k", "e", " ", "l", "e", "a", "v", "i", "n", "g",
      " ", "a", " ", "T", "O", "D", "O", " ", "c", "o", "m", "m", "e", "n",
      "t", ")", ".", "\n", "T", "h", "i", "s", " ", "h", "e", "l", "p", "s",
      " ", "d", "e", "m", "o", "n", "s", "t", "r", "a", "t", "e", " ", "h",
      "o", "w", " ", "t", "h", "e", " ", "s", "y", "s", "t", "e", "m", " ",
      "f", "i", "x", "e", "s", " ", "i", "t", "s", "e", "l", "f", ".">>

\* '\n\nWrite complete, working Python code. Just the code, nothing else.'
COMPLETE_TAIL ==
    <<"\n", "\n", "W", "r", "i", "t", "e", " ", "c", "o", "m", "p", "l", "e",
      "t", "e", ",", " ", "w", "o", "r", "k", "i", "n", "g", " ", "P", "y",
      "t", "h", "o", "n", " ", "c", "o", "d", "e", ".", " ", "J", "u", "s",
      "t", " ", "t", "h", "e", " ", "c", "o", "d", "e", ",", " ", "n", "o",
      "t", "h", "i", "n", "g", " ", "e", "l", "s", "e", ".">>

\* 'Result: '
RESULT_PREFIX ==
    <<"R", "e", "s", "u", "l", "t", ":", " ">>

\* 'Syntax error on line '
SYNTAX_PREFIX ==
    <<"S", "y", "n", "t", "a", "x", " ", "e", "r", "r", "o", "r", " ", "o",
      "n", " ", "l", "i", "n", "e", " ">>

\* ': '
COLON_SP ==
    <<":", " ">>

\* 'Variable or function not found: '
NAME_PREFIX ==
    <<"V", "a", "r", "i", "a", "b", "l", "e", " ", "o", "r", " ", "f", "u",
      "n", "c", "t", "i", "o", "n", " ", "n", "o", "t", " ", "f", "o", "u",
      "n", "d", ":", " ">>

\* 'TODO'
TODO ==
    <<"T", "O", "D", "O">>

\* 'pass'
PASS ==
    <<"p", "a", "s", "s">>

\* 'Code looks incomplete (has TODO or pass)'
ISSUE_INCOMPLETE ==
    <<"C", "o", "d", "e", " ", "l", "o", "o", "k", "s", " ", "i", "n", "c",
      "o", "m", "p", "l", "e", "t", "e", " ", "(", "h", "a", "s", " ", "T",
      "O", "D", "O", " ", "o", "r", " ", "p", "a", "s", "s", ")">>

\* 'Code seems too short to be complete'
ISSUE_SHORT ==
    <<"C", "o", "d", "e", " ", "s", "e", "e", "m", "s", " ", "t", "o", "o",
      " ", "s", "h", "o", "r", "t", " ", "t", "o", " ", "b", "e", " ", "c",
      "o", "m", "p", "l", "e", "t", "e">>

\* ', '
COMMA_SP ==
    <<",", " ">>

\* 'APPROVED'
APPROVED ==
    <<"A", "P", "P", "R", "O", "V", "E", "D">>

\* 'Looks good'
LOOKS_GOOD ==
    <<"L", "o", "o", "k", "s", " ", "g", "o", "o", "d">>

\* 'Basic checks passed'
BASIC_PASSED ==
    <<"B", "a", "s", "i", "c", " ", "c", "h", "e", "c", "k", "s", " ", "p",
      "a", "s", "s", "e", "d">>

(***************************************************************************)
(* Python exceptions: [type, msg, lineno].  msg is str(e), and e.msg of a   *)
(* SyntaxError: a text, or None for a SyntaxError made without arguments.  *)
(* lineno is a text, or None for an exception that the parser did not      *)
(* raise.                                                                  *)
(***************************************************************************)
NoExc == [type |-> "", msg |-> <<>>, lineno |-> None]

Exc(type, msg) == [type |-> type, msg |-> msg, lineno |-> None]

Raised(e) == e.type # ""

\* isinstance(e, SyntaxError)
IsSyntaxError(e) == e.type \in {"SyntaxError", "IndentationError", "TabError"}

\* isinstance(e, NameError)
IsNameError(e) == e.type \in {"NameError", "UnboundLocalError"}

\* isinstance(e, Exception): SystemExit, KeyboardInterrupt and GeneratorExit
\* derive from BaseException only
IsException(e) ==
    Raised(e) /\ e.type \notin {"SystemExit", "KeyboardInterrupt", "GeneratorExit"}

\* type(e).__name__
RECURSIVE Chars(_, _)
Chars(names, t) ==
    IF names = <<>> THEN <<>>
    ELSE IF Head(names)[1] = t THEN Head(names)[2] ELSE Chars(Tail(names), t)

TypeName(e) ==
    Chars(<< <<"ZeroDivisionError",
               <<"Z", "e", "r", "o", "D", "i", "v", "i", "s", "i", "o", "n",
                 "E", "r", "r", "o", "r">> >>,
             <<"SyntaxError",
               <<"S", "y", "n", "t", "a", "x", "E", "r", "r", "o", "r">> >>,
             <<"TypeError",
               <<"T", "y", "p", "e", "E", "r", "r", "o", "r">> >>,
             <<"BrokenPipeError",
               <<"B", "r", "o", "k", "e", "n", "P", "i", "p", "e", "E", "r", "r",
                 "o", "r">> >>,
             <<"Exception",
               <<"E", "x", "c", "e", "p", "t", "i", "o", "n">> >> >>, e.type)

(***************************************************************************)
(* The candidate programs the model executes.  exec(code, ...) is the      *)
(* interpreter below, over one-line statements: a text is split into       *)
(* lines, every line is parsed (the first line that does not parse raises  *)
(* SyntaxError before anything runs), then the statements run in order in  *)
(* the scope local_vars until one raises.                                  *)
(***************************************************************************)
\* 'result = 55'
STMT_RESULT_55 ==
    <<"r", "e", "s", "u", "l", "t", " ", "=", " ", "5", "5">>

\* 'print(55)'
STMT_PRINT_55 ==
    <<"p", "r", "i", "n", "t", "(", "5", "5", ")">>

\* 'def fib(n): return 8'
STMT_FIB_8 ==
    <<"d", "e", "f", " ", "f", "i", "b", "(", "n", ")", ":", " ", "r", "e",
      "t", "u", "r", "n", " ", "8">>

\* 'def main(): return 1'
STMT_MAIN_NOARG ==
    <<"d", "e", "f", " ", "m", "a", "i", "n", "(", ")", ":", " ", "r", "e",
      "t", "u", "r", "n", " ", "1">>

\* 'def calculate(n): return n / 0'
STMT_CALC_DIV ==
    <<"d", "e", "f", " ", "c", "a", "l", "c", "u", "l", "a", "t", "e", "(",
      "n", ")", ":", " ", "r", "e", "t", "u", "r", "n", " ", "n", " ", "/",
      " ", "0">>

\* 'y = x'
STMT_Y_X ==
    <<"y", " ", "=", " ", "x">>

\* 'raise SystemExit'
STMT_EXIT ==
    <<"r", "a", "i", "s", "e", " ", "S", "y", "s", "t", "e", "m", "E", "x",
      "i", "t">>

\* 'raise SyntaxError'
STMT_RAISE_SYNTAX ==
    <<"r", "a", "i", "s", "e", " ", "S", "y", "n", "t", "a", "x", "E", "r",
      "r", "o", "r">>

\* 'def fib(n)'
STMT_BAD_DEF ==
    <<"d", "e", "f", " ", "f", "i", "b", "(", "n", ")">>

\* "expected ':'"
MSG_EXPECTED_COLON ==
    <<"e", "x", "p", "e", "c", "t", "e", "d", " ", "'", ":", "'">>

\* 'invalid syntax'
MSG_INVALID_SYNTAX ==
    <<"i", "n", "v", "a", "l", "i", "d", " ", "s", "y", "n", "t", "a", "x">>

\* 'division by zero'
MSG_DIV_ZERO ==
    <<"d", "i", "v", "i", "s", "i", "o", "n", " ", "b", "y", " ", "z", "e",
      "r", "o">>

\* "name '"
MSG_NAME_HEAD ==
    <<"n", "a", "m", "e", " ", "'">>

\* "' is not defined"
MSG_NAME_TAIL ==
    <<"'", " ", "i", "s", " ", "n", "o", "t", " ", "d", "e", "f", "i", "n",
      "e", "d">>

\* '() takes 0 positional arguments but 1 was given'
MSG_ARGS_TAIL ==
    <<"(", ")", " ", "t", "a", "k", "e", "s", " ", "0", " ", "p", "o", "s",
      "i", "t", "i", "o", "n", "a", "l", " ", "a", "r", "g", "u", "m", "e",
      "n", "t", "s", " ", "b", "u", "t", " ", "1", " ", "w", "a", "s", " ",
      "g", "i", "v", "e", "n">>

\* expressions: a constant, a name, n / 0, or nothing (None)
Const(n) == [e |-> "const", n |-> n, id |-> "", chars |-> <<>>]

\* a reference to the name id, spelled chars
NameRef(id, chars) == [e |-> "name", n |-> 0, id |-> id, chars |-> chars]

DivByZero == [e |-> "div0", n |-> 0, id |-> "", chars |-> <<>>]

NoValue == [e |-> "none", n |-> 0, id |-> "", chars |-> <<>>]

\* Python values: an int, None, or a function name of params parameters
\* whose body is return <body>
IntVal(n) == [t |-> "int", n |-> n, name |-> <<>>, params |-> 0, body |-> NoValue]

NoneVal == [t |-> "none", n |-> 0, name |-> <<>>, params |-> 0, body |-> NoValue]

FuncVal(name, params, body) ==
    [t |-> "func", n |-> 0, name |-> name, params |-> params, body |-> body]

\* statements
Statement(op, name, expr, val) == [op |-> op, name |-> name, expr |-> expr, val |-> val]

NoOp == Statement("noop", "", NoValue, NoneVal)

\* the characters Python's parser skips inside a line
ParserBlanks == {" ", "\t", "\f"}

\* the characters of Whitespace the parser's tokenizer refuses outside a
\* comment
NonPrintable == Whitespace \ {" ", "\t", "\n", "\r", "\f"}

\* the indentation the tokenizer computes for a line: its column (a tab
\* goes to the next multiple of 8), its alternate column (a tab counts 1),
\* and the index of the first character that is no blank; a form feed
\* starts both columns again
RECURSIVE IndentFrom(_, _, _, _)
IndentFrom(line, k, col, alt) ==
    IF k > Len(line) \/ line[k] \notin ParserBlanks
    THEN [col |-> col, alt |-> alt, at |-> k]
    ELSE IF line[k] = " " THEN IndentFrom(line, k + 1, col + 1, alt + 1)
    ELSE IF line[k] = "\t" THEN IndentFrom(line, k + 1, ((col \div 8) + 1) * 8, alt + 1)
    ELSE IndentFrom(line, k + 1, 0, 0)

\* the text of the statement of a line: the line without its indentation,
\* its comment and the blanks at its end
StatementText(line) ==
    LET Text(start, stop) ==
            IF \A i \in start..stop : line[i] \in ParserBlanks THEN <<>>
            ELSE SubSeq(line, start,
                        CHOOSE i \in start..stop :
                            /\ line[i] \notin ParserBlanks
                            /\ \A j \in (i + 1)..stop : line[j] \in ParserBlanks)
        BeforeComment(start) ==
            IF \A i \in start..Len(line) : line[i] # "#" THEN Len(line)
            ELSE (CHOOSE i \in start..Len(line) :
                      line[i] = "#" /\ \A j \in start..(i - 1) : line[j] # "#") - 1
        From(start) == Text(start, BeforeComment(start))
    IN  From(IndentFrom(line, 1, 0, 0).at)

IsBlankOrComment(line) == StatementText(line) = <<>>

\* the index of the first character of NonPrintable in a text, 0 if none
FirstNonPrintable(text) ==
    LET First(at) == IF at = {} THEN 0 ELSE CHOOSE i \in at : \A j \in at : i <= j
    IN  First(UNION {{i \in 1..Len(t) : t[i] \in NonPrintable} : t \in {text}})

\* the four hexadecimal digits of the code point of a character of
\* NonPrintable
CodePoint(c) ==
    Chars(<< <<"", <<"0", "0", "0", "B">>>>,
       <<"", <<"0", "0", "1", "C">>>>,
       <<"", <<"0", "0", "1", "D">>>>,
       <<"", <<"0", "0", "1", "E">>>>,
       <<"", <<"0", "0", "1", "F">>>>,
       <<"", <<"0", "0", "8", "5">>>>,
       <<" ", <<"0", "0", "A", "0">>>>,
       <<" ", <<"1", "6", "8", "0">>>>,
       <<"u2000", <<"2", "0", "0", "0">>>>,
       <<"u2001", <<"2", "0", "0", "1">>>>,
       <<"u2002", <<"2", "0", "0", "2">>>>,
       <<"u2003", <<"2", "0", "0", "3">>>>,
       <<"u2004", <<"2", "0", "0", "4">>>>,
       <<"u2005", <<"2", "0", "0", "5">>>>,
       <<"u2006", <<"2", "0", "0", "6">>>>,
       <<"u2007", <<"2", "0", "0", "7">>>>,
       <<"u2008", <<"2", "0", "0", "8">>>>,
       <<"u2009", <<"2", "0", "0", "9">>>>,
       <<"u200a", <<"2", "0", "0", "A">>>>,
       <<"u2028", <<"2", "0", "2", "8">>>>,
       <<"u2029", <<"2", "0", "2", "9">>>>,
       <<"u202f", <<"2", "0", "2", "F">>>>,
       <<"u205f", <<"2", "0", "5", "F">>>>,
       <<"u3000", <<"3", "0", "0", "0">>>> >>, c)

\* the tokenizer's message for the first character it refuses in a text:
\* 'invalid non-printable character U+' and the code point
NonPrintableMsg(text) == <<"i", "n", "v", "a", "l", "i", "d", " ", "n", "o",
                           "n", "-", "p", "r", "i", "n", "t", "a", "b", "l",
                           "e", " ", "c", "h", "a", "r", "a", "c", "t", "e",
                           "r", " ", "U", "+">> \o CodePoint(text[FirstNonPrintable(text)])

\* the statement a line parses to; op "syntax" when the line does not parse
ParseLine(line) ==
    LET Parsed(text) ==
        CASE text = <<>> -> NoOp
          [] text = PASS -> NoOp
          [] text = STMT_RESULT_55 -> Statement("assign", "result", Const(55), NoneVal)
          [] text = STMT_PRINT_55 -> Statement("print", "", Const(55), NoneVal)
          [] text = STMT_FIB_8 ->
                Statement("def", "fib", NoValue, FuncVal(<<"f", "i", "b">>, 1, Const(8)))
          [] text = STMT_MAIN_NOARG ->
                Statement("def", "main", NoValue,
                          FuncVal(<<"m", "a", "i", "n">>, 0, Const(1)))
          [] text = STMT_CALC_DIV ->
                Statement("def", "calculate", NoValue,
                          FuncVal(<<"c", "a", "l", "c", "u", "l", "a", "t", "e">>, 1,
                                  DivByZero))
          [] text = STMT_Y_X -> Statement("assign", "y", NameRef("x", <<"x">>), NoneVal)
          [] text = STMT_EXIT -> Statement("raise", "SystemExit", NoValue, NoneVal)
          [] text = STMT_RAISE_SYNTAX ->
                Statement("raise", "SyntaxError", NoValue, NoneVal)
          [] text = STMT_BAD_DEF -> Statement("syntax", "", NoValue, NoneVal)
          [] OTHER -> Statement("syntax", "", NoValue, NoneVal)
    IN  Parsed(StatementText(line))

\* the parser's message for a line that does not parse
SyntaxMsg(line) ==
    IF StatementText(line) = STMT_BAD_DEF THEN MSG_EXPECTED_COLON ELSE MSG_INVALID_SYNTAX

\* the statements of the lines of a text
ParseLines(lines) == [i \in 1..Len(lines) |-> ParseLine(lines[i])]

\* what stops the parser at a line that follows lines without indentation:
\* "indent" an indentation, "char" a character the tokenizer refuses,
\* "syntax" a statement that does not parse, "none" nothing
LineError(line) ==
    IF IsBlankOrComment(line) THEN "none"
    ELSE IF IndentFrom(line, 1, 0, 0).col > 0 THEN "indent"
    ELSE IF FirstNonPrintable(StatementText(line)) # 0 THEN "char"
    ELSE IF ParseLine(line).op = "syntax" THEN "syntax"
    ELSE "none"

\* after a statement that does not parse the tokenizer reads on from line j
\* with its stack of indentations: the line of the first character it
\* refuses, 0 when there is none before the end of the text or before an
\* indentation it refuses
RECURSIVE ScanFrom(_, _, _)
ScanFrom(lines, j, stack) ==
    LET \* the last entry of the stack that is not deeper than the column
        Under(col) == CHOOSE k \in 1..Len(stack) :
                          /\ stack[k].col <= col
                          /\ \A m \in 1..Len(stack) : stack[m].col <= col => m <= k
        Read(ind, n) ==
            IF ind.col = stack[n].col /\ ind.alt # stack[n].alt THEN 0
            ELSE IF ind.col > stack[n].col /\ n < Len(stack) THEN 0
            ELSE IF ind.col > stack[n].col /\ ind.alt <= stack[n].alt THEN 0
            ELSE IF FirstNonPrintable(StatementText(lines[j])) # 0 THEN j
            ELSE IF ind.col > stack[n].col
            THEN ScanFrom(lines, j + 1,
                          Append(SubSeq(stack, 1, n), [col |-> ind.col, alt |-> ind.alt]))
            ELSE ScanFrom(lines, j + 1, SubSeq(stack, 1, n))
        Indented(ind) == Read(ind, Under(ind.col))
    IN  IF j > Len(lines) THEN 0
        ELSE IF IsBlankOrComment(lines[j]) THEN ScanFrom(lines, j + 1, stack)
        ELSE Indented(IndentFrom(lines[j], 1, 0, 0))

\* compile(code): the SyntaxError of the text, NoExc when it parses; an
\* indentation gives IndentationError('unexpected indent')
Compile(lines) ==
    LET Refused(at) ==
            [type |-> "SyntaxError", msg |-> NonPrintableMsg(StatementText(lines[at])),
             lineno |-> IntStr(at)]
        Other(first, later) ==
            IF later # 0 THEN Refused(later)
            ELSE [type |-> "SyntaxError", msg |-> SyntaxMsg(lines[first]),
                  lineno |-> IntStr(first)]
        Error(first, kind) ==
            IF kind = "indent"
            THEN [type |-> "IndentationError", msg |-> <<"u", "n", "e", "x", "p",
                                                         "e", "c", "t", "e", "d",
                                                         " ", "i", "n", "d", "e",
                                                         "n", "t">>,
                  lineno |-> IntStr(first)]
            ELSE IF kind = "char" THEN Refused(first)
            ELSE Other(first, ScanFrom(lines, first + 1, <<[col |-> 0, alt |-> 0]>>))
        At(first) == Error(first, LineError(lines[first]))
        First(bad) == IF bad = {} THEN NoExc
                      ELSE At(CHOOSE i \in bad : \A j \in bad : i <= j)
    IN  First({i \in 1..Len(lines) : LineError(lines[i]) # "none"})

\* str(v) of an int or of None
ValueStr(v) == IF v.t = "int" THEN IntStr(v.n) ELSE Format(None)

\* the value of an expression in a scope: [exc, val]
Eval(expr, scope) ==
    CASE expr.e = "const" -> [exc |-> NoExc, val |-> IntVal(expr.n)]
      [] expr.e = "none" -> [exc |-> NoExc, val |-> NoneVal]
      [] expr.e = "div0" -> [exc |-> Exc("ZeroDivisionError", MSG_DIV_ZERO), val |-> NoneVal]
      [] expr.e = "name" ->
            IF expr.id \in DOMAIN scope
            THEN [exc |-> NoExc, val |-> scope[expr.id]]
            ELSE [exc |-> Exc("NameError", MSG_NAME_HEAD \o expr.chars \o MSG_NAME_TAIL),
                  val |-> NoneVal]

Bind(scope, name, v) ==
    [k \in DOMAIN scope \cup {name} |-> IF k = name THEN v ELSE scope[k]]

EmptyScope == [k \in {} |-> NoneVal]

\* one statement run in a frame [locals, stdout, exc]
ExecStmt(stmt, frame) ==
    CASE stmt.op = "noop" -> frame
      [] stmt.op = "assign" ->
            LET r == Eval(stmt.expr, frame.locals)
            IN  IF Raised(r.exc) THEN [frame EXCEPT !.exc = r.exc]
                ELSE [frame EXCEPT !.locals = Bind(frame.locals, stmt.name, r.val)]
      [] stmt.op = "print" ->
            LET r == Eval(stmt.expr, frame.locals)
            IN  IF Raised(r.exc) THEN [frame EXCEPT !.exc = r.exc]
                ELSE [frame EXCEPT !.stdout = frame.stdout \o ValueStr(r.val) \o <<"\n">>]
      [] stmt.op = "def" ->
            [frame EXCEPT !.locals = Bind(frame.locals, stmt.name, stmt.val)]
      [] stmt.op = "raise" ->
            [frame EXCEPT !.exc = IF stmt.name = "SyntaxError"
                                  THEN Exc(stmt.name, None)
                                  ELSE Exc(stmt.name, <<>>)]

RECURSIVE ExecFrom(_, _, _)
ExecFrom(stmts, i, frame) ==
    IF i > Len(stmts) \/ Raised(frame.exc) THEN frame
    ELSE ExecFrom(stmts, i + 1, ExecStmt(stmts[i], frame))

\* exec(code, safe_space, local_vars) under redirect_stdout(output)
Exec(code) ==
    LET start == [locals |-> EmptyScope, stdout |-> <<>>, exc |-> NoExc]
        Run(lines, syntax) ==
            IF Raised(syntax) THEN [start EXCEPT !.exc = syntax]
            ELSE ExecFrom(ParseLines(lines), 1, start)
        Compiled(lines) == Run(lines, Compile(lines))
    IN  CHOOSE frame \in {Compiled(lines) : lines \in {SplitLines(code)}} : TRUE

\* the argument run_code passes to a conventional callable
CALL_ARG == 10

\* f(arg) for a function value f: [exc, val].  A body reads its parameter
\* and the globals (safe_space), never local_vars.
Call(f, arg) ==
    IF f.params # 1
    THEN [exc |-> Exc("TypeError", f.name \o MSG_ARGS_TAIL), val |-> NoneVal]
    ELSE Eval(f.body, EmptyScope)

(***************************************************************************)
(* ExecutorAgent.run_code                                                  *)
(***************************************************************************)
\* the dicts run_code returns
Outcome(worked, output, error) == [worked |-> worked, output |-> output, error |-> error]

\* what a call gives its caller: a returned value, or an exception passing
\* through it
Return(v) == [raised |-> FALSE, exc |-> NoExc, value |-> v]

Propagate(e) == [raised |-> TRUE, exc |-> e, value |-> None]

\* str(e)
ExcStr(e) == Format(e.msg)

\* except clauses that report an empty output, not None
HandleRunErrorEmptyOutput(e) ==
    IF IsSyntaxError(e)
    THEN Return(Outcome(FALSE, <<>>,
                        SYNTAX_PREFIX \o Format(e.lineno) \o COLON_SP \o Format(e.msg)))
    ELSE IF IsNameError(e)
    THEN Return(Outcome(FALSE, <<>>, NAME_PREFIX \o ExcStr(e)))
    ELSE IF IsException(e)
    THEN Return(Outcome(FALSE, <<>>, TypeName(e) \o COLON_SP \o ExcStr(e)))
    ELSE Propagate(e)

\* the except clauses of run_code, in their order
HandleRunError(e) ==
    IF IsSyntaxError(e)
    THEN Return(Outcome(FALSE, None,
                        SYNTAX_PREFIX \o Format(e.lineno) \o COLON_SP \o Format(e.msg)))
    ELSE IF IsNameError(e)
    THEN Return(Outcome(FALSE, None, NAME_PREFIX \o ExcStr(e)))
    ELSE IF IsException(e)
    THEN Return(Outcome(FALSE, None, TypeName(e) \o COLON_SP \o ExcStr(e)))
    ELSE Propagate(e)

FuncNames == <<"fibonacci", "fib", "calculate", "main">>

\* the first conventional name bound to a callable in local_vars, 0 if none
FirstCallable(locals) ==
    LET found == {k \in 1..Len(FuncNames) :
                     /\ FuncNames[k] \in DOMAIN locals
                     /\ locals[FuncNames[k]].t = "func"}
    IN  IF found = {} THEN 0 ELSE CHOOSE k \in found : \A j \in found : k <= j

\* lines 146-164, after exec: the first conventional callable is called
\* with 10, then a result variable replaces what is reported.
\* [exc, value]: the exception raised there, or the outcome returned
ExtractResult(frame) ==
    LET k == FirstCallable(frame.locals)
        called == IF k = 0 THEN [exc |-> NoExc, val |-> NoneVal]
                  ELSE Call(frame.locals[FuncNames[k]], CALL_ARG)
        afterCall == IF k = 0 THEN frame.stdout
                     ELSE RESULT_PREFIX \o ValueStr(called.val)
        printed == IF "result" \in DOMAIN frame.locals
                   THEN RESULT_PREFIX \o ValueStr(frame.locals["result"])
                   ELSE afterCall
    IN  IF Raised(called.exc) THEN [exc |-> called.exc, value |-> None]
        ELSE [exc |-> NoExc, value |-> Outcome(TRUE, printed, None)]

\* the try body of run_code, lines 123-164: [exc, value]
TryBody(code) ==
    LET After(frame) == IF Raised(frame.exc) THEN [exc |-> frame.exc, value |-> None]
                        ELSE ExtractResult(frame)
    IN  After(Exec(code))

run_code(code) ==
    LET After(body) ==
            IF Raised(body.exc) THEN HandleRunError(body.exc) ELSE Return(body.value)
    IN  After(TryBody(code))

(***************************************************************************)
(* ReviewerAgent.review                                                    *)
(***************************************************************************)
MIN_LENGTH == 20

\* what a call of the completion service gives: the text of the first
\* choice, or an exception
Completion(text) == [exc |-> NoExc, text |-> text]

Failure(e) == [exc |-> e, text |-> None]

Verdict(approved, feedback) == [approved |-> approved, feedback |-> feedback]

\* checks that also take a code of exactly MIN_LENGTH characters as short
IssuesInclusive(code) ==
    (IF Contains(code, TODO) \/ Contains(code, PASS)
     THEN <<ISSUE_INCOMPLETE>> ELSE <<>>)
    \o (IF Len(Strip(code)) <= MIN_LENGTH THEN <<ISSUE_SHORT>> ELSE <<>>)

\* the checks done without the service
Issues(code) ==
    (IF Contains(code, TODO) \/ Contains(code, PASS)
     THEN <<ISSUE_INCOMPLETE>> ELSE <<>>)
    \o (IF Len(Strip(code)) < MIN_LENGTH THEN <<ISSUE_SHORT>> ELSE <<>>)

\* "APPROVED" in review: a test that minds the case
IsApprovalExact(text) == Contains(text, APPROVED)

\* "APPROVED" in review.upper()
IsApproval(text) == Contains(Upper(text), APPROVED)

\* the except clause of review (a bare except: every exception)
Fallback(code) ==
    IF Issues(code) # <<>>
    THEN Verdict(FALSE, Join(Issues(code), COMMA_SP))
    ELSE Verdict(TRUE, BASIC_PASSED)

\* review(code, task) when the service call gives remote; a response
\* whose content is None raises AttributeError at review.upper(), inside
\* the try
review(code, task, remote) ==
    IF Raised(remote.exc) \/ remote.text = None THEN Fallback(code)
    ELSE IF IsApproval(remote.text) THEN Verdict(TRUE, LOOKS_GOOD)
    ELSE Verdict(FALSE, remote.text)

(***************************************************************************)
(* CoderAgent.write_code                                                   *)
(***************************************************************************)
\* which of the three instructions write_code sends
RequestKind(error_msg, attempt) ==
    IF Truthy(error_msg) THEN "fix"
    ELSE IF attempt = 1 THEN "incomplete" ELSE "complete"

Instructions(task, error_msg, attempt) ==
    CASE RequestKind(error_msg, attempt) = "fix" ->
            FIX_HEAD \o error_msg \o FIX_MID \o task \o FIX_TAIL
      [] RequestKind(error_msg, attempt) = "incomplete" -> task \o INCOMPLETE_TAIL
      [] OTHER -> task \o COMPLETE_TAIL

\* raw_code.replace(FENCE_PYTHON, "").replace(FENCE, "").strip()
CleanCode(raw) == Strip(Replace(Replace(raw, FENCE_PYTHON, <<>>), FENCE, <<>>))

\* the try body of write_code up to line 98, when the service call gives
\* remote: [exc, value].  A response whose content is None has no replace:
\* AttributeError("'NoneType' object has no attribute 'replace'")
WriteBody(remote) ==
    IF Raised(remote.exc) THEN [exc |-> remote.exc, value |-> None]
    ELSE IF remote.text = None
    THEN [exc |-> Exc("AttributeError", <<"'", "N", "o", "n", "e", "T", "y",
                                          "p", "e", "'", " ", "o", "b", "j",
                                          "e", "c", "t", " ", "h", "a", "s",
                                          " ", "n", "o", " ", "a", "t", "t",
                                          "r", "i", "b", "u", "t", "e", " ",
                                          "'", "r", "e", "p", "l", "a", "c",
                                          "e", "'">>), value |-> None]
    ELSE [exc |-> NoExc, value |-> CleanCode(remote.text)]

\* the try/except of write_code when the service call gives remote
GenerateCode(remote) ==
    LET body == WriteBody(remote)
    IN  IF ~Raised(body.exc) THEN Return(body.value)
        ELSE IF IsException(body.exc) THEN Return(ERROR_PREFIX \o ExcStr(body.exc))
        ELSE Propagate(body.exc)

(***************************************************************************)
(* Agent.say, lines 24-43: four print calls and a sleep.  It assigns no    *)
(* variable of an agent; it matters to its caller only when a print call   *)
(* raises (the stream is closed, a character cannot be encoded).  The        *)
(* operators above are the agents with a display that works; those below   *)
(* take bad, the set of say call sites, by line, whose call raises.        *)
(***************************************************************************)
\* the lines of the say calls
SayLines ==
    {64, 71, 100, 104, 121, 163, 168, 173, 178, 193, 226, 229, 255, 258, 270,
     279, 283, 285}

\* what a failing print raises: BrokenPipeError(32, 'Broken pipe'), whose
\* str is '[Errno 32] Broken pipe'
DisplayError == Exc("BrokenPipeError", <<"[", "E", "r", "r", "n", "o", " ",
                                         "3", "2", "]", " ", "B", "r", "o",
                                         "k", "e", "n", " ", "p", "i", "p",
                                         "e">>)

\* the say call write_code makes before it builds the request: line 64 with
\* an error message, line 71 without
SayLineOfRequest(error_msg) == IF Truthy(error_msg) THEN 64 ELSE 71

\* write_code, lines 61-105: say at 64 or 71 before the try, at 100 inside
\* it, at 104 inside the except clause
WriteCodeShown(error_msg, remote, bad) ==
    IF SayLineOfRequest(error_msg) \in bad THEN Propagate(DisplayError)
    ELSE LET body == WriteBody(remote)
             e == IF Raised(body.exc) THEN body.exc
                  ELSE IF 100 \in bad THEN DisplayError
                  ELSE NoExc
         IN  IF ~Raised(e) THEN Return(body.value)
             ELSE IF ~IsException(e) THEN Propagate(e)
             ELSE IF 104 \in bad THEN Propagate(DisplayError)
             ELSE Return(ERROR_PREFIX \o ExcStr(e))

\* review, lines 191-236: say at 193 before the try, at 226 or 229 inside
\* it, none in the except clause
ReviewShown(code, task, remote, bad) ==
    IF 193 \in bad THEN Propagate(DisplayError)
    ELSE IF Raised(remote.exc) \/ remote.text = None THEN Return(Fallback(code))
    ELSE IF IsApproval(remote.text)
    THEN (IF 226 \in bad THEN Return(Fallback(code))
          ELSE Return(Verdict(TRUE, LOOKS_GOOD)))
    ELSE (IF 229 \in bad THEN Return(Fallback(code))
          ELSE Return(Verdict(FALSE, remote.text)))

\* the except clauses of run_code, lines 166-179, each with its say call
HandleRunErrorShown(e, bad) ==
    LET line == IF IsSyntaxError(e) THEN 168 ELSE IF IsNameError(e) THEN 173 ELSE 178
    IN  IF IsException(e) /\ line \in bad THEN Propagate(DisplayError)
        ELSE HandleRunError(e)

\* run_code, lines 116-179: say at 121 before the try, at 163 inside it,
\* at 168, 173 or 178 inside the except clauses
RunCodeShown(code, bad) ==
    IF 121 \in bad THEN Propagate(DisplayError)
    ELSE LET After(body) ==
                 IF Raised(body.exc) THEN HandleRunErrorShown(body.exc, bad)
                 ELSE IF 163 \in bad THEN HandleRunErrorShown(DisplayError, bad)
                 ELSE Return(body.value)
         IN  After(TryBody(code))

(***************************************************************************)
(* update_readme_with_output: README.md is a text, or NoFile when the file *)
(* does not exist.                                                         *)
(***************************************************************************)
\* '<!-- AUTO_GEN_OUTPUT_START -->'
START_MARKER ==
    <<"<", "!", "-", "-", " ", "A", "U", "T", "O", "_", "G", "E", "N", "_",
      "O", "U", "T", "P", "U", "T", "_", "S", "T", "A", "R", "T", " ", "-",
      "-", ">">>

\* '<!-- AUTO_GEN_OUTPUT_END -->'
END_MARKER ==
    <<"<", "!", "-", "-", " ", "A", "U", "T", "O", "_", "G", "E", "N", "_",
      "O", "U", "T", "P", "U", "T", "_", "E", "N", "D", " ", "-", "-", ">">>

\* '\n<backquote><backquote><backquote>\n'
BLOCK_OPEN ==
    <<"\n", BQ, BQ, BQ, "\n">>

\* '\n<backquote><backquote><backquote>\n'
BLOCK_CLOSE ==
    <<"\n", BQ, BQ, BQ, "\n">>

\* '# AutoGen Demo Project\n\n## Latest Output\n'
DEFAULT_README ==
    <<"#", " ", "A", "u", "t", "o", "G", "e", "n", " ", "D", "e", "m", "o",
      " ", "P", "r", "o", "j", "e", "c", "t", "\n", "\n", "#", "#", " ", "L",
      "a", "t", "e", "s", "t", " ", "O", "u", "t", "p", "u", "t", "\n">>

\* '\n\n## Latest Output\n'
SECTION_HEADER ==
    <<"\n", "\n", "#", "#", " ", "L", "a", "t", "e", "s", "t", " ", "O", "u",
      "t", "p", "u", "t", "\n">>

\* '# Demo\n'
DOC_INTRO ==
    <<"#", " ", "D", "e", "m", "o", "\n">>

\* '\n## License\nMIT\n'
DOC_FOOTER ==
    <<"\n", "#", "#", " ", "L", "i", "c", "e", "n", "s", "e", "\n", "M", "I",
      "T", "\n">>

\* 'Result: 8'
OUT_OLD ==
    <<"R", "e", "s", "u", "l", "t", ":", " ", "8">>

\* 'Result: 55'
OUT_RESULT_55 ==
    <<"R", "e", "s", "u", "l", "t", ":", " ", "5", "5">>

\* 'ZeroDivisionError: division by zero'
OUT_DIV_ZERO ==
    <<"Z", "e", "r", "o", "D", "i", "v", "i", "s", "i", "o", "n", "E", "r",
      "r", "o", "r", ":", " ", "d", "i", "v", "i", "s", "i", "o", "n", " ",
      "b", "y", " ", "z", "e", "r", "o">>

\* README.md does not exist
NoFile == <<"NoFile">>

\* the texts custom_mode passes at line 428: an output or an error of
\* run_code ("" is the output of a candidate that prints nothing)
Payloads == {OUT_RESULT_55, OUT_OLD, OUT_DIV_ZERO, <<>>}

\* the README.md files the model starts from: none, one without markers,
\* one with the section at its end, one with text after the section, one
\* with the start marker only, one with the end marker only and one with
\* "\r\n" and "\r" at the ends of its lines
Documents ==
    {NoFile,
     DOC_INTRO,
     <<"#", " ", "D", "e", "m", "o", "\r", "\n", "T", "e", "x", "t", "\r",
       "m", "o", "r", "e", "\n">>,
     DOC_INTRO \o START_MARKER \o BLOCK_OPEN \o OUT_OLD \o BLOCK_CLOSE \o END_MARKER,
     DOC_INTRO \o START_MARKER \o BLOCK_OPEN \o OUT_OLD \o BLOCK_CLOSE \o END_MARKER
         \o DOC_FOOTER,
     DOC_INTRO \o START_MARKER \o DOC_FOOTER,
     DOC_INTRO \o END_MARKER \o DOC_FOOTER}

\* the index of the first occurrence of sub in s, 0 when there is none
Find(s, sub) ==
    LET at == {i \in 1..(Len(s) - Len(sub) + 1) : IsPrefixAt(s, sub, i)}
    IN  IF at = {} THEN 0 ELSE CHOOSE i \in at : \A j \in at : i <= j

\* s.split(sep)[0]: the text before the first sep, s when there is none
SplitFirst(s, sep) ==
    IF Find(s, sep) = 0 THEN s ELSE SubSeq(s, 1, Find(s, sep) - 1)

\* line 333
NewSection(output_text) ==
    START_MARKER \o BLOCK_OPEN \o output_text \o BLOCK_CLOSE \o END_MARKER

\* what read_text gives for the characters of a file: "\r\n" and "\r" are
\* read as "\n"
RECURSIVE UniversalNewlines(_)
UniversalNewlines(s) ==
    LET i == Find(s, <<"\r">>)
        rest == IF i < Len(s) /\ s[i + 1] = "\n" THEN i + 2 ELSE i + 1
    IN  IF i = 0 THEN s
        ELSE SubSeq(s, 1, i - 1) \o <<"\n">>
                 \o UniversalNewlines(SubSeq(s, rest, Len(s)))

\* lines 323-327: the content read, after the file is made if it is missing
ReadContent(file) ==
    IF file = NoFile THEN DEFAULT_README ELSE UniversalNewlines(file)

\* lines 335-340: the content written for the content read
NewContent(content, output_text) ==
    IF Contains(content, START_MARKER) /\ Contains(content, END_MARKER)
    THEN SplitFirst(content, START_MARKER) \o NewSection(output_text)
    ELSE content \o SECTION_HEADER \o NewSection(output_text) \o <<"\n">>

\* README.md after update_readme_with_output(output_text)
update_readme_with_output(file, output_text) ==
    NewContent(ReadContent(file), output_text)

(***************************************************************************)
(* The inputs of the model: the task, what the completion service gives    *)
(* the Coder and the Reviewer, and max_tries.                              *)
(***************************************************************************)
\* '<backquote><backquote><backquote>python\n# TODO: write fib\nresult = 55\n<backquote><backquote><backquote>'
RAW_TODO_FENCED ==
    <<BQ, BQ, BQ, "p", "y", "t", "h", "o", "n", "\n", "#", " ", "T", "O",
      "D", "O", ":", " ", "w", "r", "i", "t", "e", " ", "f", "i", "b", "\n",
      "r", "e", "s", "u", "l", "t", " ", "=", " ", "5", "5", "\n", BQ, BQ,
      BQ>>

\* 'def fib(n): return 8'
RAW_FIB ==
    <<"d", "e", "f", " ", "f", "i", "b", "(", "n", ")", ":", " ", "r", "e",
      "t", "u", "r", "n", " ", "8">>

\* 'def main(): return 1\nresult = 55'
RAW_MAIN_NOARG_RESULT ==
    <<"d", "e", "f", " ", "m", "a", "i", "n", "(", ")", ":", " ", "r", "e",
      "t", "u", "r", "n", " ", "1", "\n", "r", "e", "s", "u", "l", "t", " ",
      "=", " ", "5", "5">>

\* 'def fib(n): return 8\nresult = 55'
RAW_FIB_RESULT ==
    <<"d", "e", "f", " ", "f", "i", "b", "(", "n", ")", ":", " ", "r", "e",
      "t", "u", "r", "n", " ", "8", "\n", "r", "e", "s", "u", "l", "t", " ",
      "=", " ", "5", "5">>

\* '# sum\ndef fib(n)'
RAW_SYNTAX ==
    <<"#", " ", "s", "u", "m", "\n", "d", "e", "f", " ", "f", "i", "b", "(",
      "n", ")">>

\* 'y = x'
RAW_NAME ==
    <<"y", " ", "=", " ", "x">>

\* 'def calculate(n): return n / 0'
RAW_CALC_DIV ==
    <<"d", "e", "f", " ", "c", "a", "l", "c", "u", "l", "a", "t", "e", "(",
      "n", ")", ":", " ", "r", "e", "t", "u", "r", "n", " ", "n", " ", "/",
      " ", "0">>

\* 'raise SystemExit'
RAW_EXIT ==
    <<"r", "a", "i", "s", "e", " ", "S", "y", "s", "t", "e", "m", "E", "x",
      "i", "t">>

\* 'pass\nprint(55)'
RAW_PASS_PRINT ==
    <<"p", "a", "s", "s", "\n", "p", "r", "i", "n", "t", "(", "5", "5", ")">>

\* 'raise SyntaxError'
RAW_RAISE_SYNTAX ==
    <<"r", "a", "i", "s", "e", " ", "S", "y", "n", "t", "a", "x", "E", "r",
      "r", "o", "r">>

\* 'Approved.'
REVIEW_APPROVED ==
    <<"A", "p", "p", "r", "o", "v", "e", "d", ".">>

\* 'Missing return'
REVIEW_MISSING ==
    <<"M", "i", "s", "s", "i", "n", "g", " ", "r", "e", "t", "u", "r", "n">>

\* 'Calculate factorial of 5', the task of line 415
Tasks == {<<"C", "a", "l", "c", "u", "l", "a", "t", "e", " ", "f", "a", "c",
            "t", "o", "r", "i", "a", "l", " ", "o", "f", " ", "5">>}

RawCompletions ==
    {RAW_TODO_FENCED, RAW_FIB, RAW_MAIN_NOARG_RESULT, RAW_FIB_RESULT, RAW_PASS_PRINT,
     RAW_SYNTAX, RAW_NAME, RAW_CALC_DIV, RAW_EXIT, RAW_RAISE_SYNTAX,
     \* a text with \xa0 at its start and \r\n at the ends of its lines: '\xa0print(55)\r\nresult = 55\r\n'
     <<" ", "p", "r", "i", "n", "t", "(", "5", "5", ")", "\r", "\n", "r", "e",
       "s", "u", "l", "t", " ", "=", " ", "5", "5", "\r", "\n">>,
     \* a line that is \xa0: 'print(55)\n\xa0\nresult = 55'
     <<"p", "r", "i", "n", "t", "(", "5", "5", ")", "\n", " ", "\n", "r", "e",
       "s", "u", "l", "t", " ", "=", " ", "5", "5">>,
     \* a statement after a blank: 'result = 55\n print(55)'
     <<"r", "e", "s", "u", "l", "t", " ", "=", " ", "5", "5", "\n", " ", "p",
       "r", "i", "n", "t", "(", "5", "5", ")">>,
     \* a def without colon and, after it, \xa0: 'def fib(n)\n \xa0\npass'
     <<"d", "e", "f", " ", "f", "i", "b", "(", "n", ")", "\n", " ", " ", "\n",
       "p", "a", "s", "s">>}

\* APIConnectionError('Connection error.') and KeyboardInterrupt()
ServiceFailures ==
    {Failure(Exc("APIConnectionError", <<"C", "o", "n", "n", "e", "c", "t",
                                         "i", "o", "n", " ", "e", "r", "r",
                                         "o", "r", ".">>)),
     Failure(Exc("KeyboardInterrupt", <<>>))}

\* what the Coder's service call gives: a text, a response whose content
\* is None, or an exception
CoderRemotes ==
    {Completion(r) : r \in RawCompletions} \cup {Completion(None)}
    \cup ServiceFailures

ReviewRemotes ==
    {Completion(r) : r \in {REVIEW_APPROVED, REVIEW_MISSING, <<>>}}
    \cup ServiceFailures

(***************************************************************************)
(* State.  One run_task invocation at a time on one Orchestrator, Coder,   *)
(* Reviewer and Executor (as main and custom_mode create them).            *)
(*                                                                         *)
(* In every iteration of run_task's loop, code and review are assigned     *)
(* before they are read, so the values an iteration leaves in them are     *)
(* never read by the next: the model forgets them (None, NoVerdict) when   *)
(* the loop goes on to its next value.                                     *)
(***************************************************************************)
VARIABLES
    pc,             \* where run_task is: "idle" before the first invocation,
                    \* "write_code", "review", "run_code" before that call,
                    \* "loop_exit" before line 287, "returned", "raised"
    runs,           \* run_task invocations made so far
    task,           \* run_task's task
    max_tries,      \* run_task's max_tries
    attempt,        \* run_task's loop variable
    coder_attempt,  \* CoderAgent.attempt
    code,           \* run_task's code
    review_result,  \* run_task's review
    result,         \* run_task's result
    instructions,   \* the instructions write_code sent in this iteration
    coder_remote,   \* what the service gave write_code in this iteration
    review_remote,  \* what the service gave review in this iteration
    coder_failures, \* the write_code calls of this invocation whose service
                    \* call raised
    log,            \* the stage calls of this invocation, in order
    returned,       \* the value the invocation returned
    raised,         \* the exception the invocation ended with
    readme,         \* README.md: its text, or NoFile
    content_read,   \* update_readme_with_output's content at line 327 of
                    \* its last call
    output_text,    \* the output_text of its last call
    prev_output,    \* the output_text of the call before that
    updates,        \* update_readme_with_output calls made so far
    broken          \* the say call sites, by line, whose call raises

agent_vars ==
    <<pc, runs, task, max_tries, attempt, coder_attempt, code, review_result,
      result, instructions, coder_remote, review_remote, coder_failures, log,
      returned, raised>>

readme_vars == <<readme, content_read, output_text, prev_output, updates>>

vars == <<agent_vars, readme_vars, broken>>

\* a local variable not assigned yet
Unbound == [unbound |-> TRUE]

NoVerdict == Verdict(FALSE, None)

NoRemote == Failure(NoExc)

Entry(stage, n, info) == [stage |-> stage, attempt |-> n, info |-> info]

\* the agents before the first run_task call
AgentsInit ==
    /\ pc = "idle"
    /\ runs = 0
    /\ task = None
    /\ max_tries = 0
    /\ attempt = 0
    /\ coder_attempt = 0
    /\ code = None
    /\ review_result = NoVerdict
    /\ result = Unbound
    /\ instructions = None
    /\ coder_remote = NoRemote
    /\ review_remote = NoRemote
    /\ coder_failures = 0
    /\ log = <<>>
    /\ returned = Unbound
    /\ raised = NoExc
    /\ broken = {}

\* README.md is file and update_readme_with_output was not called yet
ReadmeInit(file) ==
    /\ readme = file
    /\ content_read = None
    /\ output_text = None
    /\ prev_output = None
    /\ updates = 0

Init == AgentsInit /\ ReadmeInit(NoFile)

\* a range that has one value more: range(1, max_tries + 2)
HasNextOneMore(n, tries) == n + 1 <= tries + 1

\* range(1, max_tries + 1) has a value after n
HasNext(n, tries) == n + 1 <= tries

\* a rejection branch that is also left on the attempt before the last
SkipExecutionEarlier(v, n, tries) == ~v.approved /\ n + 1 < tries

\* a rejection branch with attempt <= max_tries for attempt < max_tries
SkipExecutionThroughLast(v, n, tries) == ~v.approved /\ n <= tries

\* a rejection branch taken on every attempt, the last one too
SkipExecutionAnyAttempt(v, n, tries) == ~v.approved

\* line 269
SkipExecution(v, n, tries) == ~v.approved /\ n < tries

\* the loop goes to its next value, or ends
NextIteration ==
    IF HasNext(attempt, max_tries)
    THEN /\ attempt' = attempt + 1
         /\ pc' = "write_code"
         /\ code' = None
         /\ review_result' = NoVerdict
         /\ instructions' = None
         /\ coder_remote' = NoRemote
         /\ review_remote' = NoRemote
    ELSE /\ attempt' = attempt
         /\ pc' = "loop_exit"
         /\ UNCHANGED <<code, review_result, instructions, coder_remote, review_remote>>

\* run_task(task, coder, reviewer, executor, max_tries) is called, by main
\* or by custom_mode's loop after the call before it has returned
RunTask(t, tries) ==
    /\ pc \in {"idle", "returned"}
    /\ runs < MaxRuns
    /\ runs' = runs + 1
    /\ task' = t
    /\ max_tries' = tries
    /\ code' = None
    /\ review_result' = NoVerdict
    /\ result' = Unbound
    /\ instructions' = None
    /\ coder_remote' = NoRemote
    /\ review_remote' = NoRemote
    /\ coder_failures' = 0
    /\ log' = <<>>
    /\ returned' = Unbound
    /\ raised' = NoExc
    /\ IF HasNext(0, tries)
       THEN attempt' = 1 /\ pc' = "write_code"
       ELSE attempt' = 0 /\ pc' = "loop_exit"
    /\ UNCHANGED coder_attempt
    /\ UNCHANGED <<readme_vars, broken>>

\* lines 261-264: coder.write_code(task) or
\* coder.write_code(task, error_msg=result["error"])
WriteCode(remote) ==
    /\ pc = "write_code"
    /\ LET error_msg == IF attempt = 1 THEN None ELSE result.error
           gen == GenerateCode(remote)
       IN  /\ coder_attempt' = coder_attempt + 1
           /\ instructions' = Instructions(task, error_msg, coder_attempt + 1)
           /\ coder_remote' = remote
           /\ coder_failures' = coder_failures + (IF Raised(remote.exc) THEN 1 ELSE 0)
           /\ log' = Append(log, Entry("write_code", attempt,
                                       RequestKind(error_msg, coder_attempt + 1)))
           /\ IF gen.raised
              THEN /\ pc' = "raised"
                   /\ raised' = gen.exc
                   /\ UNCHANGED code
              ELSE /\ pc' = "review"
                   /\ code' = gen.value
                   /\ UNCHANGED raised
    /\ UNCHANGED <<runs, task, max_tries, attempt, review_result, result,
                   review_remote, returned>>
    /\ UNCHANGED <<readme_vars, broken>>

\* lines 267-272: reviewer.review(code, task) and the rejection branch
Review(remote) ==
    /\ pc = "review"
    /\ \E v \in {review(code, task, remote)} :
           /\ log' = Append(log, Entry("review", attempt,
                                       IF v.approved THEN "approved" ELSE "rejected"))
           /\ IF SkipExecution(v, attempt, max_tries)
              THEN /\ result' = [worked |-> FALSE, error |-> v.feedback]
                   /\ NextIteration
              ELSE /\ pc' = "run_code"
                   /\ review_result' = v
                   /\ review_remote' = remote
                   /\ UNCHANGED <<result, attempt, code, instructions, coder_remote>>
    /\ UNCHANGED <<runs, task, max_tries, coder_attempt, coder_failures,
                   returned, raised>>
    /\ UNCHANGED <<readme_vars, broken>>

\* a loop without lines 278-280: it goes on after a run that worked
RunCodeGoesOn ==
    /\ pc = "run_code"
    /\ \E r \in {run_code(code)} :
           IF r.raised
           THEN /\ pc' = "raised"
                /\ raised' = r.exc
                /\ log' = Append(log, Entry("run_code", attempt, "raised"))
                /\ UNCHANGED <<result, returned, attempt, code, review_result,
                               instructions, coder_remote, review_remote>>
           ELSE /\ result' = r.value
                /\ log' = Append(log, Entry("run_code", attempt,
                                            IF r.value.worked THEN "worked" ELSE "failed"))
                /\ UNCHANGED raised
                /\ NextIteration
                /\ UNCHANGED returned
    /\ UNCHANGED <<runs, task, max_tries, coder_attempt, coder_failures>>
    /\ UNCHANGED <<readme_vars, broken>>

\* lines 275-285: executor.run_code(code) and the check of its outcome
RunCode ==
    /\ pc = "run_code"
    /\ \E r \in {run_code(code)} :
           IF r.raised
           THEN /\ pc' = "raised"
                /\ raised' = r.exc
                /\ log' = Append(log, Entry("run_code", attempt, "raised"))
                /\ UNCHANGED <<result, returned, attempt, code, review_result,
                               instructions, coder_remote, review_remote>>
           ELSE /\ result' = r.value
                /\ log' = Append(log, Entry("run_code", attempt,
                                            IF r.value.worked THEN "worked" ELSE "failed"))
                /\ UNCHANGED raised
                /\ IF r.value.worked
                   THEN /\ pc' = "returned"
                        /\ returned' = r.value
                        /\ UNCHANGED <<attempt, code, review_result, instructions,
                                       coder_remote, review_remote>>
                   ELSE NextIteration /\ UNCHANGED returned
    /\ UNCHANGED <<runs, task, max_tries, coder_attempt, coder_failures>>
    /\ UNCHANGED <<readme_vars, broken>>

\* line 287: return result.  Without an assignment to result it raises
\* UnboundLocalError("cannot access local variable 'result' where it is not
\* associated with a value")
LoopExit ==
    /\ pc = "loop_exit"
    /\ IF result = Unbound
       THEN /\ pc' = "raised"
            /\ raised' = Exc("UnboundLocalError", <<"c", "a", "n", "n", "o",
                                                    "t", " ", "a", "c", "c",
                                                    "e", "s", "s", " ", "l",
                                                    "o", "c", "a", "l", " ",
                                                    "v", "a", "r", "i", "a",
                                                    "b", "l", "e", " ", "'",
                                                    "r", "e", "s", "u", "l",
                                                    "t", "'", " ", "w", "h",
                                                    "e", "r", "e", " ", "i",
                                                    "t", " ", "i", "s", " ",
                                                    "n", "o", "t", " ", "a",
                                                    "s", "s", "o", "c", "i",
                                                    "a", "t", "e", "d", " ",
                                                    "w", "i", "t", "h", " ",
                                                    "a", " ", "v", "a", "l",
                                                    "u", "e">>)
            /\ UNCHANGED returned
       ELSE /\ pc' = "returned"
            /\ returned' = result
            /\ UNCHANGED raised
    /\ UNCHANGED <<runs, task, max_tries, attempt, coder_attempt, code,
                   review_result, result, instructions, coder_remote, review_remote,
                   coder_failures, log>>
    /\ UNCHANGED <<readme_vars, broken>>

\* the head of run_task's loop after attempt n, lines 257-258: where
\* run_task goes, with which attempt, raising what
LoopHead(n, tries, bad) ==
    IF ~HasNext(n, tries)
    THEN [pc |-> "loop_exit", attempt |-> n, exc |-> NoExc]
    ELSE IF 258 \in bad
    THEN [pc |-> "raised", attempt |-> n + 1, exc |-> DisplayError]
    ELSE [pc |-> "write_code", attempt |-> n + 1, exc |-> NoExc]

\* the loop goes to its next value, or ends, or line 258 raises
ShownNextIteration ==
    LET head == LoopHead(attempt, max_tries, broken)
    IN  /\ attempt' = head.attempt
        /\ pc' = head.pc
        /\ raised' = head.exc
        /\ IF head.pc = "write_code"
           THEN /\ code' = None
                /\ review_result' = NoVerdict
                /\ instructions' = None
                /\ coder_remote' = NoRemote
                /\ review_remote' = NoRemote
           ELSE UNCHANGED <<code, review_result, instructions, coder_remote,
                            review_remote>>

\* run_task is called once, with the say calls of bad raising: lines 255-258
ShownRunTask(t, tries, bad) ==
    /\ pc = "idle"
    /\ runs < MaxRuns
    /\ runs' = runs + 1
    /\ broken' = bad
    /\ task' = t
    /\ max_tries' = tries
    /\ code' = None
    /\ review_result' = NoVerdict
    /\ result' = Unbound
    /\ instructions' = None
    /\ coder_remote' = NoRemote
    /\ review_remote' = NoRemote
    /\ coder_failures' = 0
    /\ log' = <<>>
    /\ returned' = Unbound
    /\ IF 255 \in bad
       THEN attempt' = 0 /\ pc' = "raised" /\ raised' = DisplayError
       ELSE LET head == LoopHead(0, tries, bad)
            IN  attempt' = head.attempt /\ pc' = head.pc /\ raised' = head.exc
    /\ UNCHANGED coder_attempt
    /\ UNCHANGED readme_vars

\* lines 261-264, the say calls of write_code included
ShownWriteCode(remote) ==
    /\ pc = "write_code"
    /\ LET error_msg == IF attempt = 1 THEN None ELSE result.error
           gen == WriteCodeShown(error_msg, remote, broken)
       IN  /\ coder_attempt' = coder_attempt + 1
           /\ IF SayLineOfRequest(error_msg) \in broken
              THEN /\ log' = Append(log, Entry("write_code", attempt,
                                               "<no request sent>"))
                   /\ UNCHANGED <<instructions, coder_remote, coder_failures>>
              ELSE /\ instructions' = Instructions(task, error_msg, coder_attempt + 1)
                   /\ coder_remote' = remote
                   /\ coder_failures' =
                          coder_failures + (IF Raised(remote.exc) THEN 1 ELSE 0)
                   /\ log' = Append(log, Entry("write_code", attempt,
                                               RequestKind(error_msg, coder_attempt + 1)))
           /\ IF gen.raised
              THEN /\ pc' = "raised"
                   /\ raised' = gen.exc
                   /\ UNCHANGED code
              ELSE /\ pc' = "review"
                   /\ code' = gen.value
                   /\ UNCHANGED raised
    /\ UNCHANGED <<runs, task, max_tries, attempt, review_result, result,
                   review_remote, returned>>
    /\ UNCHANGED <<readme_vars, broken>>

\* lines 267-272, the say calls of review and line 270 included
ShownReview(remote) ==
    /\ pc = "review"
    /\ LET r == ReviewShown(code, task, remote, broken)
           v == r.value
       IN  IF r.raised
           THEN /\ pc' = "raised"
                /\ raised' = r.exc
                /\ log' = Append(log, Entry("review", attempt, "raised"))
                /\ UNCHANGED <<result, attempt, code, review_result, instructions,
                               coder_remote, review_remote>>
           ELSE /\ log' = Append(log, Entry("review", attempt,
                                            IF v.approved THEN "approved" ELSE "rejected"))
                /\ IF SkipExecution(v, attempt, max_tries)
                   THEN IF 270 \in broken
                        THEN /\ pc' = "raised"
                             /\ raised' = DisplayError
                             /\ UNCHANGED <<result, attempt, code, review_result,
                                            instructions, coder_remote, review_remote>>
                        ELSE /\ result' = [worked |-> FALSE, error |-> v.feedback]
                             /\ ShownNextIteration
                   ELSE /\ pc' = "run_code"
                        /\ review_result' = v
                        /\ review_remote' = remote
                        /\ UNCHANGED <<result, attempt, code, instructions,
                                       coder_remote, raised>>
    /\ UNCHANGED <<runs, task, max_tries, coder_attempt, coder_failures, returned>>
    /\ UNCHANGED <<readme_vars, broken>>

\* lines 275-285, the say calls of run_code and lines 279, 283 and 285
\* included
ShownRunCode ==
    /\ pc = "run_code"
    /\ \E r \in {RunCodeShown(code, broken)} :
           IF r.raised
           THEN /\ pc' = "raised"
                /\ raised' = r.exc
                /\ log' = Append(log, Entry("run_code", attempt, "raised"))
                /\ UNCHANGED <<result, returned, attempt, code, review_result,
                               instructions, coder_remote, review_remote>>
           ELSE /\ result' = r.value
                /\ log' = Append(log, Entry("run_code", attempt,
                                            IF result'.worked THEN "worked" ELSE "failed"))
                /\ IF (IF result'.worked THEN 279
                       ELSE IF attempt < max_tries THEN 283 ELSE 285) \in broken
                   THEN /\ pc' = "raised"
                        /\ raised' = DisplayError
                        /\ UNCHANGED <<returned, attempt, code, review_result,
                                       instructions, coder_remote, review_remote>>
                   ELSE IF result'.worked
                   THEN /\ pc' = "returned"
                        /\ returned' = result'
                        /\ UNCHANGED <<raised, attempt, code, review_result,
                                       instructions, coder_remote, review_remote>>
                   ELSE ShownNextIteration /\ UNCHANGED returned
    /\ UNCHANGED <<runs, task, max_tries, coder_attempt, coder_failures>>
    /\ UNCHANGED <<readme_vars, broken>>

\* update_readme_with_output(p), lines 321-342
UpdateReadme(p) ==
    /\ updates < MaxUpdates
    /\ updates' = updates + 1
    /\ content_read' = ReadContent(readme)
    /\ readme' = update_readme_with_output(readme, p)
    /\ prev_output' = output_text
    /\ output_text' = p
    /\ UNCHANGED <<agent_vars, broken>>

Next ==
    \/ \E t \in Tasks, tries \in 0..MaxTriesBound : RunTask(t, tries)
    \/ \E remote \in CoderRemotes : WriteCode(remote)
    \/ \E remote \in ReviewRemotes : Review(remote)
    \/ RunCode
    \/ LoopExit

Spec == Init /\ [][Next]_vars

\* weak fairness of RunCode, whose enabling condition is pc = "run_code"
RunCodeEnds == []<>(pc # "run_code") \/ []<><<RunCode>>_vars

\* an invocation in progress runs on: the interpreter executes the next
\* statement of run_task, and every call it makes returns or raises
FairSpec ==
    /\ Spec
    /\ WF_vars(\E remote \in CoderRemotes : WriteCode(remote))
    /\ WF_vars(\E remote \in ReviewRemotes : Review(remote))
    /\ RunCodeEnds
    /\ WF_vars(LoopExit)

\* one invocation with max_tries = 1: write_code, review and run_code are
\* each called once, on every candidate and every answer of the service
CallNext ==
    \/ \E t \in Tasks : pc = "idle" /\ RunTask(t, 1)
    \/ \E remote \in CoderRemotes : WriteCode(remote)
    \/ \E remote \in ReviewRemotes : Review(remote)
    \/ RunCode
    \/ LoopExit

CallSpec == Init /\ [][CallNext]_vars

\* update_readme_with_output called again and again on one README.md, as
\* one run of custom_mode after another does, from each of Documents
ReadmeNext == \E p \in Payloads : UpdateReadme(p)

\* the agents were created and README.md is one of Documents
ReadmeStart == AgentsInit /\ \E file \in Documents : ReadmeInit(file)

ReadmeSpec == ReadmeStart /\ [][ReadmeNext]_vars

\* one invocation of run_task with a display that may be broken: no say
\* call site raises, or one does
DisplayNext ==
    \/ \E t \in Tasks, tries \in 1..MaxShownTries,
          bad \in {{}} \cup {{line} : line \in SayLines} :
           ShownRunTask(t, tries, bad)
    \/ \E remote \in CoderRemotes : ShownWriteCode(remote)
    \/ \E remote \in ReviewRemotes : ShownReview(remote)
    \/ ShownRunCode
    \/ LoopExit

DisplaySpec == Init /\ [][DisplayNext]_vars
(***************************************************************************)
(* What the properties below read off the state.                           *)
(***************************************************************************)
InProgress == pc \in {"write_code", "review", "run_code", "loop_exit"}

Finished == pc \in {"returned", "raised"}

\* the calls of one stage made so far in this invocation
Calls(stage) == {k \in 1..Len(log) : log[k].stage = stage}

LastCall == IF log = <<>> THEN Entry("", 0, "") ELSE log[Len(log)]

\* the exceptions with which a stage call ends instead of returning
NotReturning == {"SystemExit", "KeyboardInterrupt"}

\* a dict with the keys of the outcomes run_task hands back
IsOutcome(d) == {"worked", "error"} \subseteq DOMAIN d

(***************************************************************************)
(* C1.  For max_tries >= 1, one invocation of run_task calls run_code at   *)
(* most max_tries times; it ends; and when every stage call has returned   *)
(* it ends by returning one outcome (never by raising).                    *)
(***************************************************************************)
C1_AtMostMaxTries ==
    max_tries >= 1 =>
        /\ Cardinality(Calls("run_code")) <= max_tries
        /\ pc = "returned" => IsOutcome(returned) /\ raised = NoExc
        /\ pc = "raised" => raised.type \in NotReturning /\ returned = Unbound

C1_Terminates == InProgress ~> Finished

C1_BoundedRun == []C1_AtMostMaxTries /\ C1_Terminates

\* every attempt of an invocation with max_tries >= 2 was executed and
\* failed, and the invocation has returned
C1_Witness ==
    /\ pc = "returned"
    /\ max_tries >= 2
    /\ Cardinality(Calls("run_code")) = max_tries
    /\ ~returned.worked

(***************************************************************************)
(* C2.  A review that rejects on attempt i < max_tries is followed by      *)
(* write_code of attempt i + 1, and run_code is not called for attempt i.  *)
(***************************************************************************)
C2_RejectionSkipsRunner ==
    \A k \in Calls("review") :
        (log[k].info = "rejected" /\ log[k].attempt < max_tries) =>
            /\ \A j \in Calls("run_code") : log[j].attempt # log[k].attempt
            /\ IF k < Len(log)
               THEN log[k + 1].stage = "write_code"
                    /\ log[k + 1].attempt = log[k].attempt + 1
               ELSE pc = "write_code" /\ attempt = log[k].attempt + 1

\* a rejection before the last attempt, and the call that followed it
C2_Witness ==
    \E k \in Calls("review") :
        /\ log[k].info = "rejected"
        /\ log[k].attempt < max_tries
        /\ k < Len(log)

(***************************************************************************)
(* C3.  When the Coder's service call fails on every attempt of an         *)
(* invocation, run_task makes exactly max_tries attempts and returns a     *)
(* failure whose error is not empty.                                       *)
(***************************************************************************)
C3_ServiceDownFails ==
    (pc = "returned" /\ max_tries >= 1
        /\ coder_failures = Cardinality(Calls("write_code"))) =>
            /\ Cardinality(Calls("write_code")) = max_tries
            /\ returned.worked = FALSE
            /\ Truthy(returned.error)

(***************************************************************************)
(* C4.  run_code reports, in this order of priority: the result variable   *)
(* the candidate leaves, else what a conventional callable returns for     *)
(* 10, else the captured stdout.  A candidate that runs to completion and  *)
(* leaves a result variable always gives a success outcome with that       *)
(* value, whatever callable it also defines.                               *)
(***************************************************************************)
C4_ResultFirst ==
    (LastCall.stage = "run_code" /\ code # None /\ ~Raised(Exec(code).exc)) =>
        LET locals == Exec(code).locals
            k == FirstCallable(locals)
        IN  /\ "result" \in DOMAIN locals =>
                /\ pc = "returned"
                /\ returned = Outcome(TRUE, RESULT_PREFIX \o ValueStr(locals["result"]), None)
            /\ ("result" \notin DOMAIN locals /\ k = 0) =>
                /\ pc = "returned"
                /\ returned = Outcome(TRUE, Exec(code).stdout, None)
            /\ ("result" \notin DOMAIN locals /\ k # 0 /\ pc = "returned") =>
                returned.output =
                    RESULT_PREFIX \o ValueStr(Call(locals[FuncNames[k]], CALL_ARG).val)

(***************************************************************************)
(* C5.  No exception crosses a component boundary: whatever the service    *)
(* or the candidate raises, write_code, review, run_code and run_task      *)
(* return a value (max_tries >= 1).                                        *)
(***************************************************************************)
C5_NothingPropagates == max_tries >= 1 => pc # "raised"

(***************************************************************************)
(* C6.  The attempt number of run_task and the attempt counter of the      *)
(* Coder, which accompanies each candidate, never exceed the max_tries of  *)
(* the invocation in progress.                                             *)
(***************************************************************************)
C6_AttemptsBounded ==
    pc \in {"review", "run_code"} =>
        /\ attempt <= max_tries
        /\ coder_attempt <= max_tries

(***************************************************************************)
(* C7.  run_code classifies what the candidate raises: a text that does    *)
(* not parse gives the syntax-error failure with its line number, a text   *)
(* that parses and reads an undefined name gives the name-error failure,   *)
(* and any other raised condition gives the generic failure, type name     *)
(* and message.                                                            *)
(***************************************************************************)
C7_FailureClasses ==
    (LastCall.stage = "run_code" /\ code # None /\ Raised(TryBody(code).exc)) =>
        LET e == TryBody(code).exc
            parse == Compile(SplitLines(code))
        IN  /\ pc # "raised"
            /\ result.worked = FALSE
            /\ result.output = None
            /\ Raised(parse) =>
                /\ parse.lineno # None /\ parse.lineno # <<>>
                /\ result.error = SYNTAX_PREFIX \o parse.lineno \o COLON_SP \o parse.msg
            /\ (~Raised(parse) /\ IsNameError(e)) =>
                result.error = NAME_PREFIX \o ExcStr(e)
            /\ (~Raised(parse) /\ ~IsNameError(e)) =>
                result.error = TypeName(e) \o COLON_SP \o ExcStr(e)

(***************************************************************************)
(* C8.  When the Reviewer's service call fails, review approves exactly    *)
(* when the code holds neither TODO nor pass and its stripped length is    *)
(* at least 20; when it rejects, the feedback is the issue descriptions    *)
(* joined by ", ".                                                         *)
(***************************************************************************)
HasMarker(text) ==
    \E i \in 1..Len(text) :
        \/ i + 3 <= Len(text)
           /\ <<text[i], text[i + 1], text[i + 2], text[i + 3]>> = <<"T", "O", "D", "O">>
        \/ i + 3 <= Len(text)
           /\ <<text[i], text[i + 1], text[i + 2], text[i + 3]>> = <<"p", "a", "s", "s">>

StrippedLength(text) ==
    Cardinality({i \in 1..Len(text) :
                    /\ \E j \in 1..i : text[j] \notin Whitespace
                    /\ \E j \in i..Len(text) : text[j] \notin Whitespace})

C8_FallbackVerdict ==
    (LastCall.stage = "review" /\ Raised(review_remote.exc)) =>
        LET marker == HasMarker(code)
            short == StrippedLength(code) < 20
        IN  /\ review_result.approved = (~marker /\ ~short)
            /\ ~review_result.approved =>
                /\ review_result.feedback # <<>>
                /\ review_result.feedback =
                     CASE marker /\ short -> ISSUE_INCOMPLETE \o COMMA_SP \o ISSUE_SHORT
                       [] marker /\ ~short -> ISSUE_INCOMPLETE
                       [] OTHER -> ISSUE_SHORT

\* the service call failed and review rejected a code that is short and
\* holds a marker: both issues are in the feedback
C8_Witness ==
    /\ LastCall.stage = "review"
    /\ Raised(review_remote.exc)
    /\ ~review_result.approved
    /\ HasMarker(code)
    /\ StrippedLength(code) < 20

(***************************************************************************)
(* C9.  When the Reviewer's service call returns a text, review approves   *)
(* exactly when the text holds APPROVED in any mix of cases, whatever the  *)
(* local checks found; when it rejects, the feedback is that text.         *)
(***************************************************************************)
TokenUpper == <<"A", "P", "P", "R", "O", "V", "E", "D">>

TokenLower == <<"a", "p", "p", "r", "o", "v", "e", "d">>

HoldsToken(text) ==
    \E i \in 1..Len(text) :
        /\ i + Len(TokenUpper) - 1 <= Len(text)
        /\ \A j \in 1..Len(TokenUpper) :
              text[i + j - 1] \in {TokenUpper[j], TokenLower[j]}

C9_RemoteVerdict ==
    (LastCall.stage = "review" /\ review_remote.text # None) =>
        /\ review_result.approved = HoldsToken(review_remote.text)
        /\ ~review_result.approved => review_result.feedback = review_remote.text

\* the service approved, not in capitals, a code the local checks flag
C9_Witness ==
    /\ LastCall.stage = "review"
    /\ review_remote.text # None
    /\ review_result.approved
    /\ review_remote.text # TokenUpper
    /\ HasMarker(code)

(***************************************************************************)
(* C10.  Invocations share no state: with the same task and the same       *)
(* answers, an invocation sends the same instructions whatever             *)
(* invocations came before it.  So the first instructions of every         *)
(* invocation are those a new Coder sends for the task.                    *)
(***************************************************************************)
C10_FirstRequestSame ==
    (pc = "review" /\ attempt = 1) =>
        /\ instructions = Instructions(task, None, 1)
        /\ LastCall.info = "incomplete"

(***************************************************************************)
(* C13.  On the last attempt (attempt = max_tries) the candidate is        *)
(* executed once whatever the verdict of review: the call after the        *)
(* review of the last attempt is run_code of that attempt, it is the only  *)
(* run_code of that attempt, and what run_task then returns is what        *)
(* run_code returned, not the rejection.                                   *)
(***************************************************************************)
C13_LastAttemptRuns ==
    \A k \in Calls("review") :
        log[k].attempt = max_tries =>
            IF k = Len(log)
            THEN pc = "run_code"
            ELSE /\ Len(log) = k + 1
                 /\ log[k + 1].stage = "run_code"
                 /\ log[k + 1].attempt = max_tries
                 /\ pc = "returned" => returned = run_code(code).value

\* the review of the last attempt rejected, the candidate was executed
\* and run_task has returned
C13_Witness ==
    /\ pc = "returned"
    /\ Len(log) >= 2
    /\ LastCall.stage = "run_code"
    /\ LastCall.attempt = max_tries
    /\ log[Len(log) - 1].stage = "review"
    /\ log[Len(log) - 1].info = "rejected"

(***************************************************************************)
(* C14.  The error of attempt i - 1 (the feedback of a rejection without   *)
(* execution, else the error of run_code) is what write_code of attempt    *)
(* i > 1 is given, and the instructions it sends are the fix request       *)
(* holding that text; write_code of attempt 1 is given no error and sends  *)
(* no fix request.                                                         *)
(***************************************************************************)
C14_ErrorThreaded ==
    pc = "review" =>
        IF attempt = 1
        THEN /\ LastCall.info # "fix"
             /\ instructions \in {task \o INCOMPLETE_TAIL, task \o COMPLETE_TAIL}
        ELSE /\ LastCall.info = "fix"
             /\ instructions = FIX_HEAD \o result.error \o FIX_MID \o task \o FIX_TAIL

(***************************************************************************)
(* C15.  run_task stops at the first run that worked: a run_code call      *)
(* that returned worked = true is the last stage call of the invocation,   *)
(* whatever attempts are left, and run_task has returned its outcome.      *)
(***************************************************************************)
C15_StopsAtSuccess ==
    \A k \in Calls("run_code") :
        log[k].info = "worked" =>
            /\ k = Len(log)
            /\ pc = "returned"
            /\ returned = run_code(code).value
            /\ returned.worked

\* a run that worked before the last attempt
C15_Witness ==
    /\ pc = "returned"
    /\ LastCall.stage = "run_code"
    /\ LastCall.info = "worked"
    /\ LastCall.attempt < max_tries

(***************************************************************************)
(* C16.  For max_tries >= 1, what run_task returns is an outcome of        *)
(* run_code, with the keys worked, output and error, never the failure     *)
(* that line 271 makes of the review feedback; a returned failure is the   *)
(* outcome of run_code on attempt max_tries.                               *)
(***************************************************************************)
C16_ReturnsRunnerOutcome ==
    (pc = "returned" /\ max_tries >= 1) =>
        /\ LastCall.stage = "run_code"
        /\ returned = run_code(code).value
        /\ DOMAIN returned = {"worked", "output", "error"}
        /\ ~returned.worked => LastCall.attempt = max_tries

\* every attempt failed, one of them by a rejection that made a failure
\* of the feedback, and run_task has returned
C16_Witness ==
    /\ pc = "returned"
    /\ ~returned.worked
    /\ \E k \in Calls("review") :
          log[k].info = "rejected" /\ log[k].attempt < max_tries

(***************************************************************************)
(* C17.  The stage calls of an invocation come in the order write_code,    *)
(* review, run_code within an attempt, each at most once per attempt, and  *)
(* attempt by attempt: every write_code is followed by the review of its   *)
(* attempt, a run_code follows the review of its attempt and runs the      *)
(* candidate that write_code made in that attempt, and write_code of       *)
(* attempt i + 1 follows the last stage call of attempt i.                 *)
(***************************************************************************)
C17_StagesInOrder ==
    /\ \A k \in 1..Len(log) :
          CASE log[k].stage = "write_code" ->
                  IF k = 1 THEN log[k].attempt = 1
                  ELSE /\ log[k - 1].stage \in {"review", "run_code"}
                       /\ log[k].attempt = log[k - 1].attempt + 1
            [] log[k].stage = "review" ->
                  /\ k > 1
                  /\ log[k - 1].stage = "write_code"
                  /\ log[k].attempt = log[k - 1].attempt
            [] log[k].stage = "run_code" ->
                  /\ k > 1
                  /\ log[k - 1].stage = "review"
                  /\ log[k].attempt = log[k - 1].attempt
            [] OTHER -> FALSE
    /\ LastCall.stage = "write_code" => pc = "review"
    /\ LastCall.stage = "review" => pc \in {"run_code", "write_code"}
    /\ pc \in {"review", "run_code"} =>
          /\ LastCall.attempt = attempt
          /\ code = GenerateCode(coder_remote).value

(***************************************************************************)
(* C18.  An outcome that run_code returns is a success (worked is true,    *)
(* output is a text, error is None) or a failure (worked is false, output  *)
(* is None, error is a text that is not empty); so worked is true exactly  *)
(* when error is None.                                                     *)
(***************************************************************************)
C18_OutcomeShapes ==
    (LastCall.stage = "run_code" /\ pc # "raised") =>
        /\ DOMAIN result = {"worked", "output", "error"}
        /\ result.worked \in BOOLEAN
        /\ result.worked = (result.error = None)
        /\ IF result.worked
           THEN result.output # None
           ELSE result.output = None /\ result.error # <<>>

\* run_code has returned a failure
C18_Witness ==
    /\ LastCall.stage = "run_code"
    /\ pc # "raised"
    /\ ~result.worked
    /\ result.error # None

(***************************************************************************)
(* C19.  A candidate that the local checks of review flag (it holds TODO   *)
(* or pass, or its stripped length is under 20) is never approved; so it   *)
(* reaches run_code only on the last attempt, unapproved.                  *)
(***************************************************************************)
C19_FlaggedNeverApproved ==
    (pc = "run_code" /\ (HasMarker(code) \/ StrippedLength(code) < 20)) =>
        /\ ~review_result.approved
        /\ attempt = max_tries

(***************************************************************************)
(* What the properties of update_readme_with_output read off a document:   *)
(* the delimited section starts after the first start marker, where the    *)
(* function itself cuts the document, and ends before the first end        *)
(* marker that follows.                                                    *)
(***************************************************************************)
\* the text after the first sep, empty when there is none
AfterFirst(s, sep) ==
    IF Find(s, sep) = 0 THEN <<>> ELSE SubSeq(s, Find(s, sep) + Len(sep), Len(s))

HasBothMarkers(doc) == Contains(doc, START_MARKER) /\ Contains(doc, END_MARKER)

\* the content between the start marker and the end marker
Section(doc) == SplitFirst(AfterFirst(doc, START_MARKER), END_MARKER)

\* the text after the end marker of the section
AfterSection(doc) == AfterFirst(AfterFirst(doc, START_MARKER), END_MARKER)

(***************************************************************************)
(* C11.  update_readme_with_output is idempotent on the delimited          *)
(* section: after two calls in a row with the same output_text, from any   *)
(* document, the content between the markers is what it was after the      *)
(* first of the two.                                                       *)
(***************************************************************************)
C11_SectionIdempotent ==
    (updates >= 2 /\ output_text = prev_output) =>
        Section(readme) = Section(content_read)

(***************************************************************************)
(* C20.  update_readme_with_output changes the delimited section only.     *)
(* When the document holds both markers, the text before the start marker  *)
(* and the text after the end marker stay as they were and the section     *)
(* holds the new output; when a marker is missing, the text stays as it    *)
(* was and the header and the new section are added at its end.            *)
(***************************************************************************)
C20_OnlySectionChanges ==
    updates >= 1 =>
        IF HasBothMarkers(content_read)
        THEN /\ SplitFirst(readme, START_MARKER) = SplitFirst(content_read, START_MARKER)
             /\ Section(readme) = BLOCK_OPEN \o output_text \o BLOCK_CLOSE
             /\ AfterSection(readme) = AfterSection(content_read)
        ELSE readme \in {content_read \o SECTION_HEADER \o NewSection(output_text),
                         content_read \o SECTION_HEADER \o NewSection(output_text)
                             \o <<"\n">>}

\* C12: the display operation has no influence on the run: with the same
\* task and the same replies of the generation service, an invocation whose
\* say calls may raise produces what the stages produce with say calls that
\* return -- the code write_code returns, the verdict review returns, the
\* outcome run_code returns and run_task returns -- and never ends with the
\* exception of a say call.
C12_DisplayNoInfluence ==
    /\ raised # DisplayError
    /\ pc \in {"review", "run_code"} => code = GenerateCode(coder_remote).value
    /\ pc = "run_code" => review_result = review(code, task, review_remote)
    /\ pc = "returned" /\ LastCall.stage = "run_code"
           => returned = run_code(code).value

====
